---------------------------- MODULE Spec2Model ----------------------------
(***************************************************************************)
(* A model of server.py, the job-board scraper that runs as an AWS Lambda. *)
(*                                                                         *)
(* Text that the program inspects character by character (job titles and   *)
(* the answers of the classification oracle) is a sequence of one-character*)
(* strings; every other cell of a table is an atomic string.  A missing    *)
(* value (pandas' NaN) is the empty text, which is also how to_csv writes  *)
(* it and how read_csv reads it back.                                      *)
(***************************************************************************)
EXTENDS Integers, Sequences, FiniteSets, TLC

VARIABLES
    fs,        \* the files under /tmp/data: one per (job type, artifact name)
    s3,        \* the S3 objects <job_type>_historical_jobs.csv
    pc,        \* the position of lambda_handler / main
    cur,       \* the job type of the JobConfig that main is running with
    locals,    \* combine_csv_files' local variables, as of its last call
    call,      \* the call of a source adapter that main has just made: what
               \* its remote and the oracle did
    exc,       \* the exception that has left main(), "none" when none has
    fetched,   \* postings the remotes have listed so far
    started,   \* the job types whose main() this invocation has entered
    sheet,     \* the worksheet of today's date in each configuration's workbook
    outbox,    \* the emails sent, each with its attachment
    result,    \* the statusCode the latest invocation returned (0: none yet)
    invocations \* invocations of lambda_handler so far

vars == <<fs, s3, pc, cur, locals, call, exc, fetched, started, sheet,
          outbox, result, invocations>>

-----------------------------------------------------------------------------
(* Bounds of the model.                                                    *)

\* rows held by the per-source files of one aggregation, in total
MaxRows == 2
\* records of a ledger the aggregation starts from
MaxLedger == 1
\* characters of a job title drawn exhaustively from TitleAlphabet
MaxTitleLen == 3
\* postings the remote job boards list, in total
MaxPostings == 2
\* invocations of lambda_handler
MaxInvocations == 2
\* runs of one job type that overlap
MaxRuns == 2

-----------------------------------------------------------------------------
(* Sequences and text.                                                     *)

Range(s) == {s[i] : i \in 1..Len(s)}

SeqsUpTo(S, n) == UNION {[1..k -> S] : k \in 0..n}

Uppers == <<"A","B","C","D","E","F","G","H","I","J","K","L","M",
            "N","O","P","Q","R","S","T","U","V","W","X","Y","Z">>

Lowers == <<"a","b","c","d","e","f","g","h","i","j","k","l","m",
            "n","o","p","q","r","s","t","u","v","w","x","y","z">>

LowerOf == [c \in {Uppers[k] : k \in 1..Len(Uppers)} |->
               Lowers[CHOOSE k \in 1..Len(Uppers) : Uppers[k] = c]]

\* str.lower() / re.IGNORECASE on one character
LowerChar(c) == IF c \in DOMAIN LowerOf THEN LowerOf[c] ELSE c

Lower(t) == [i \in 1..Len(t) |-> LowerChar(t[i])]

Whitespace == {" ", "\t", "\n", "\r"}

RECURSIVE LStrip(_)
LStrip(t) == IF Len(t) > 0 /\ t[1] \in Whitespace THEN LStrip(Tail(t)) ELSE t

RECURSIVE RStrip(_)
RStrip(t) ==
    IF Len(t) > 0 /\ t[Len(t)] \in Whitespace
    THEN RStrip(SubSeq(t, 1, Len(t) - 1)) ELSE t

\* str.strip()
Strip(t) == RStrip(LStrip(t))

\* Python's  needle in haystack  on str
Contains(haystack, needle) ==
    \E i \in 1..(Len(haystack) + 1) :
        /\ i + Len(needle) - 1 <= Len(haystack)
        /\ \A j \in 1..Len(needle) : haystack[i + j - 1] = needle[j]

RECURSIVE Join(_, _)
\* sep.join(parts)
Join(parts, sep) ==
    IF Len(parts) = 0 THEN <<>>
    ELSE IF Len(parts) = 1 THEN parts[1]
    ELSE parts[1] \o <<sep>> \o Join(Tail(parts), sep)

RECURSIVE Alternatives(_)
\* the branches of a regular expression, which "|" separates
Alternatives(pattern) ==
    IF \E i \in 1..Len(pattern) : pattern[i] = "|"
    THEN LET i == CHOOSE k \in 1..Len(pattern) :
                      /\ pattern[k] = "|"
                      /\ \A m \in 1..(k - 1) : pattern[m] # "|"
         IN  <<SubSeq(pattern, 1, i - 1)>>
                 \o Alternatives(SubSeq(pattern, i + 1, Len(pattern)))
    ELSE <<pattern>>

\* one pattern character against one text character, ignoring case: "." is
\* the regular expression's wildcard (any character but a newline)
RegexChar(p, c) ==
    IF p = "." THEN c # "\n" ELSE LowerChar(p) = LowerChar(c)

RegexMatchAt(alt, text, i) ==
    /\ i + Len(alt) - 1 <= Len(text)
    /\ \A j \in 1..Len(alt) : RegexChar(alt[j], text[i + j - 1])

\* re.search(pattern, text, re.IGNORECASE) for the patterns the program
\* builds (literal characters, "." and "|"), given the pattern's branches
RegexSearch(branches, text) ==
    \E a \in Range(branches) :
        \E i \in 1..(Len(text) + 1) : RegexMatchAt(a, text, i)

-----------------------------------------------------------------------------
(* Configuration: JobConfig and the two configurations of lambda_handler.  *)

JobTypes == {"DS", "CS"}

\* the keys of JobConfig.filenames
FileNames == {"yc", "sequoia", "nextview", "greylock", "andreessen",
              "combined", "microsoft", "amazon"}

FileKeys == JobTypes \X FileNames

\* exclusion_keywords of DS_CONFIG and CS_CONFIG
ExclusionKeywords(job_type) ==
    IF job_type = "DS"
    THEN << <<"S","r",".">>, <<"S","r">>, <<"S","t","a","f","f">>,
            <<"P","r","i","n","c","i","p","a","l">>, <<"l","e","a","d">>,
            <<"S","e","n","i","o","r">>, <<"P","H","D">>,
            <<"i","n","t","e","r","n">>, <<"i","n","d","i","a">> >>
    ELSE << <<"S","r",".">>, <<"S","t","a","f","f">>,
            <<"P","r","i","n","c","i","p","a","l">>, <<"l","e","a","d">>,
            <<"S","e","n","i","o","r">>,
            <<"i","n","t","e","r","n">>, <<"i","n","d","i","a">> >>

\* the per-source files combine_csv_files reads, in its order
FilesToCombine(job_type) ==
    IF job_type = "DS"
    THEN <<"sequoia", "nextview", "greylock", "andreessen", "microsoft", "amazon">>
    ELSE <<"yc", "sequoia", "nextview", "greylock", "andreessen", "microsoft", "amazon">>

-----------------------------------------------------------------------------
(* Tables (pandas DataFrames) and CSV files.                               *)

\* the keys of the dicts every adapter appends to jobs_data
JobColumns == <<"Company", "Job", "Details", "Date/Time Posted", "Link", "YC">>

\* the columns of the ledger
HistoryColumns == <<"Company", "Job", "Link">>

\* the "Job" column holds text; every other column holds atomic strings
NaNOf(col) == IF col = "Job" THEN <<>> ELSE ""

\* pd.DataFrame()
EmptyDataFrame == [columns |-> <<>>, rows |-> <<>>]

\* DataFrame.empty
IsEmpty(df) == Len(df.columns) = 0 \/ Len(df.rows) = 0

\* a file that does not exist
Absent == [exists |-> FALSE, columns |-> <<>>, rows |-> <<>>]

\* DataFrame.to_csv(path, index=False): the header line, then the rows; a
\* frame with no columns leaves a file that holds no header at all
ToCsv(df) == [exists |-> TRUE, columns |-> df.columns, rows |-> df.rows]

\* the spellings pd.read_csv reads as a missing value
NaStrings == {"", "#N/A", "#N/A N/A", "#NA", "-1.#IND", "-1.#QNAN", "-NaN",
              "-nan", "1.#IND", "1.#QNAN", "<NA>", "N/A", "NA", "NULL",
              "NaN", "None", "n/a", "nan", "null"}

NaTexts == {<<>>, <<"N","/","A">>, <<"N","A">>, <<"N","U","L","L">>,
            <<"N","a","N">>, <<"N","o","n","e">>, <<"n","/","a">>,
            <<"n","a","n">>, <<"n","u","l","l">>}

ReadCell(col, v) ==
    IF col = "Job"
    THEN (IF v \in NaTexts THEN NaNOf(col) ELSE v)
    ELSE (IF v \in NaStrings THEN NaNOf(col) ELSE v)

\* pd.read_csv raises EmptyDataError on a file without a header line
ReadCsvRaises(file) == Len(file.columns) = 0

\* pd.read_csv(path)
ReadCsv(file) ==
    [columns |-> file.columns,
     rows    |-> [i \in 1..Len(file.rows) |->
                     [c \in Range(file.columns) |-> ReadCell(c, file.rows[i][c])]]]

\* pd.concat([a, b], ignore_index=True): the union of the columns, a's first;
\* a cell of a column the row's frame did not have is NaN
Concat(a, b) ==
    LET cols == a.columns \o SelectSeq(b.columns, LAMBDA c : c \notin Range(a.columns))
        Pad(row) == [c \in Range(cols) |->
                        IF c \in DOMAIN row THEN row[c] ELSE NaNOf(c)]
    IN  [columns |-> cols,
         rows    |-> [i \in 1..Len(a.rows) |-> Pad(a.rows[i])]
                         \o [i \in 1..Len(b.rows) |-> Pad(b.rows[i])]]

\* df[[c1, c2, ...]]
Project(df, cols) ==
    [columns |-> cols,
     rows    |-> [i \in 1..Len(df.rows) |-> [c \in Range(cols) |-> df.rows[i][c]]]]

\* df[mask], the mask holding one boolean for each row
Where(df, mask) ==
    LET kept == SelectSeq([i \in 1..Len(df.rows) |-> i], LAMBDA i : mask[i])
    IN  [columns |-> df.columns, rows |-> [k \in 1..Len(kept) |-> df.rows[kept[k]]]]

Links(df) == {df.rows[i]["Link"] : i \in 1..Len(df.rows)}

HasDuplicateLink(rows) ==
    \E i, j \in 1..Len(rows) : i # j /\ rows[i]["Link"] = rows[j]["Link"]

-----------------------------------------------------------------------------
(* The aggregator and the history store.                                   *)

\* '|'.join(config.exclusion_keywords), compiled, for each configuration
ExclusionPattern ==
    [j \in JobTypes |-> Alternatives(Join(ExclusionKeywords(j), "|"))]

\* Series.str.contains('|'.join(exclusion_keywords), case=False, na=False)
\* on one title
TitleExcluded(title, job_type) ==
    IF title = NaNOf("Job") THEN FALSE
    ELSE RegexSearch(ExclusionPattern[job_type], title)

\* get_historical_log_from_s3: the ledger, or an empty frame with the
\* ledger's columns when the object does not exist (NoSuchKey)
get_historical_log_from_s3(object) ==
    IF object.exists THEN ReadCsv(object)
    ELSE [columns |-> HistoryColumns, rows |-> <<>>]

\* update_historical_log_in_s3: put_object replaces the object
update_historical_log_in_s3(history_df) == ToCsv(history_df)

RECURSIVE ReadSourcesStopAtMissing(_, _, _, _)
\* a loop that gives up at the first file that does not exist
ReadSourcesStopAtMissing(names, job_type, files, combined_data) ==
    IF Len(names) = 0 THEN combined_data
    ELSE LET file == files[<<job_type, Head(names)>>]
         IN  IF ~file.exists THEN EmptyDataFrame
             ELSE ReadSourcesStopAtMissing(Tail(names), job_type, files,
                      IF ~ReadCsvRaises(file) /\ ~IsEmpty(ReadCsv(file))
                      THEN Concat(combined_data, ReadCsv(file))
                      ELSE combined_data)

RECURSIVE ReadSources(_, _, _, _)
\* the loop over files_to_combine: a file that does not exist, cannot be
\* read or holds no rows is skipped
ReadSources(names, job_type, files, combined_data) ==
    IF Len(names) = 0 THEN combined_data
    ELSE LET file == files[<<job_type, Head(names)>>]
             next == IF /\ file.exists
                        /\ ~ReadCsvRaises(file)
                        /\ ~IsEmpty(ReadCsv(file))
                     THEN Concat(combined_data, ReadCsv(file))
                     ELSE combined_data
         IN  ReadSources(Tail(names), job_type, files, next)

\* a reconciliation that keys the ledger on the link and the title together
NewJobsKeyedOnTitle(combined_data, history_df) ==
    Where(combined_data,
          [k \in 1..Len(combined_data.rows) |->
              \A i \in 1..Len(history_df.rows) :
                  \/ history_df.rows[i]["Link"] # combined_data.rows[k]["Link"]
                  \/ history_df.rows[i]["Job"] # combined_data.rows[k]["Job"]])

\* combined_data[~combined_data["Link"].isin(history_df["Link"])]
NewJobsWithHistory(combined_data, history_df) ==
    Where(combined_data,
          [k \in 1..Len(combined_data.rows) |->
              combined_data.rows[k]["Link"] \notin Links(history_df)])

NewJobs(combined_data, history_df) ==
    IF ~IsEmpty(history_df)
    THEN NewJobsWithHistory(combined_data, history_df)
    ELSE combined_data

\* a ledger rebuilt from the new postings alone
UpdatedHistoryNewOnly(history_df, new_jobs) == Project(new_jobs, HistoryColumns)

\* pd.concat([history_df, new_jobs[["Company", "Job", "Link"]]])
UpdatedHistory(history_df, new_jobs) ==
    Concat(history_df, Project(new_jobs, HistoryColumns))

\* no adapter call: the summary of a call names the adapter, how its
\* listing came back, whether an oracle call failed, the links whose date
\* could not be parsed, the answers the oracle gave (each with the link of
\* the posting it was asked about) and whether the per-source file was
\* written
NoCall ==
    [name |-> "none", listing |-> "none", oracle_failed |-> FALSE,
     bad_dates |-> {}, asked |-> <<>>, written |-> FALSE]

\* a request to S3: get_object or put_object, and the job type whose
\* <job_type>_historical_jobs.csv it names
S3Request(op, job_type) == [op |-> op, job_type |-> job_type]

\* ops are the requests combine_csv_files has made to S3, in order
NoLocals ==
    [ran |-> FALSE, filtered |-> FALSE, persisted |-> FALSE, written |-> FALSE,
     candidates |-> EmptyDataFrame, history_df |-> EmptyDataFrame,
     new_jobs |-> EmptyDataFrame, ops |-> <<>>]

\* combine_csv_files(config), whole: what it leaves in the file system, in
\* S3 and in its local variables
CombineOutcome(job_type, files, objects) ==
    LET read       == ReadSources(FilesToCombine(job_type), job_type, files,
                                  EmptyDataFrame)
        hasJob     == "Job" \in Range(read.columns)
        candidates == Where(read, [k \in 1..Len(read.rows) |->
                          ~TitleExcluded(read.rows[k]["Job"], job_type)])
        history_df == get_historical_log_from_s3(objects[job_type])
        new_jobs   == NewJobs(candidates, history_df)
        persist    == ~IsEmpty(new_jobs)
        output     == IF ~hasJob THEN read
                      ELSE IF persist THEN new_jobs ELSE candidates
    IN  IF IsEmpty(read)
        THEN [files   |-> files, objects |-> objects,
              locals  |-> [NoLocals EXCEPT !.ran = TRUE]]
        ELSE [files   |-> [files EXCEPT ![<<job_type, "combined">>] = ToCsv(output)],
              objects |-> IF hasJob /\ persist
                          THEN [objects EXCEPT ![job_type] =
                                   update_historical_log_in_s3(
                                       UpdatedHistory(history_df, new_jobs))]
                          ELSE objects,
              locals  |-> IF hasJob
                          THEN [ran |-> TRUE, filtered |-> TRUE,
                                persisted |-> persist, written |-> TRUE,
                                candidates |-> candidates,
                                history_df |-> history_df,
                                new_jobs |-> new_jobs,
                                ops |-> IF persist
                                        THEN <<S3Request("get", job_type),
                                               S3Request("put", job_type)>>
                                        ELSE <<S3Request("get", job_type)>>]
                          ELSE [NoLocals EXCEPT !.ran = TRUE, !.written = TRUE]]

\* main's call of combine_csv_files(config)
combine_csv_files ==
    /\ pc = "combine"
    /\ LET out == CombineOutcome(cur, fs, s3)
       IN  /\ fs' = out.files
           /\ s3' = out.objects
           /\ locals' = out.locals
    /\ pc' = "upload"
    /\ call' = NoCall
    /\ UNCHANGED <<cur, exc, fetched, started, sheet, outbox, result, invocations>>

-----------------------------------------------------------------------------
(* The values the model draws postings from.                               *)

\* the per-source artifacts, in the order the adapters run
SourceNames == <<"yc", "sequoia", "nextview", "greylock", "andreessen",
                 "microsoft", "amazon">>

\* the "YC" cell an adapter writes: venture_name.title() for the boards
SourceLabel(name) ==
    CASE name = "yc"         -> "Y-Combinator"
      [] name = "sequoia"    -> "Sequoia"
      [] name = "nextview"   -> "Nextview"
      [] name = "greylock"   -> "Greylock"
      [] name = "andreessen" -> "Andreessen"
      [] OTHER               -> "N/A"

\* the "Company" cell: fixed by the two company adapters, from the payload
\* for the others
CompanyOf(name) ==
    CASE name = "microsoft" -> "Microsoft"
      [] name = "amazon"    -> "Amazon"
      [] OTHER              -> "Acme"

\* the dict an adapter appends to jobs_data
JobRow(company, title, details, posted, link, label) ==
    [c \in Range(JobColumns) |->
        CASE c = "Company"          -> company
          [] c = "Job"              -> title
          [] c = "Details"          -> details
          [] c = "Date/Time Posted" -> posted
          [] c = "Link"             -> link
          [] OTHER                  -> label]

HistoryRow(company, title, link) ==
    [c \in Range(HistoryColumns) |->
        CASE c = "Company" -> company
          [] c = "Job"     -> title
          [] OTHER         -> link]

TitleDev   == <<"D","e","v">>
TitleDevII == <<"D","e","v"," ","I","I">>
TitleSrDev == <<"S","r","."," ","D","e","v">>
TitleSRE   == <<"S","R","E">>
TitleNA    == <<"N","/","A">>

UrlA == "https://jobs.example/a"
UrlB == "https://jobs.example/b"
UrlC == "https://jobs.example/c"

RowsOf(name, titles, links) ==
    {JobRow(CompanyOf(name), t, "Remote", "2024-12-06", l, SourceLabel(name)) :
        t \in titles, l \in links}

\* a ledger as update_historical_log_in_s3 writes it: never without records
LedgerObjects(titles, links, n) ==
    {Absent} \cup
    {ToCsv([columns |-> HistoryColumns, rows |-> h]) :
        h \in SeqsUpTo({HistoryRow("Acme", t, l) : t \in titles, l \in links}, n)
                 \ {<<>>}}

NoFiles == [k \in FileKeys |-> Absent]

NoObjects == [j \in JobTypes |-> Absent]

-----------------------------------------------------------------------------
(* The classifier and the date conversion that the adapters share.         *)

\* what client.chat.completions.create does: it raises, or it returns the
\* oracle's answer
OracleRaises == [error |-> TRUE, content |-> <<>>]

Answer(text) == [error |-> FALSE, content |-> text]

AnswerYes == Answer(<<"Y","e","s">>)
AnswerNo  == Answer(<<"N","o">>)
AnswerYesFits == Answer(<<"Y","e","s",","," ","t","h","i","s"," ","f","i","t","s">>)
AnswerMaybe   == Answer(<<"m","a","y","b","e">>)
AnswerShout   == Answer(<<" ","O","H"," ","Y","E","S","!","\n">>)

OracleOutcomes ==
    {AnswerYes, AnswerNo, AnswerYesFits, AnswerMaybe, AnswerShout, OracleRaises}

\* the oracle's answer about the posting with this link
Asked(link, content) == [link |-> link, content |-> content]

\* a test that forgets lower(): "yes" in content.strip()
AcceptsCaseSensitive(content) == Contains(Strip(content), <<"y","e","s">>)

\* "yes" in chat_completion.choices[0].message.content.strip().lower()
Accepts(content) == Contains(Lower(Strip(content)), <<"y","e","s">>)

\* datetime.now().date(), as a day number
Today == 20

\* timedelta(days=7)
SevenDays == 7

\* a posting date as the remote spells it: a Unix epoch, one of the four
\* strptime formats, text in no known format, or no value at all (None)
TimestampKinds == {"epoch", "iso_offset", "iso_frac_offset", "iso_z",
                   "iso_frac_z", "garbage", "none"}

Timestamp(kind, day) == [kind |-> kind, day |-> day]

RecentEpoch == Timestamp("epoch", Today - 1)
OldEpoch    == Timestamp("epoch", Today - SevenDays - 1)
RecentIso   == Timestamp("iso_z", Today - 1)
OldIso      == Timestamp("iso_frac_offset", Today - SevenDays - 1)
Unparseable == Timestamp("garbage", 0)

\* int(timestamp_str): an int, or ValueError / TypeError
IntRaises(ts) == ts.kind # "epoch"

\* convert_to_date: the date; the sentinel "Invalid Date" when int() and
\* every format fail; strptime's TypeError when the value is None
convert_to_date(ts) ==
    CASE ts.kind = "epoch"   -> [raised |-> "none", sentinel |-> FALSE, day |-> ts.day]
      [] ts.kind = "garbage" -> [raised |-> "none", sentinel |-> TRUE, day |-> 0]
      [] ts.kind = "none"    -> [raised |-> "TypeError", sentinel |-> FALSE, day |-> 0]
      [] OTHER               -> [raised |-> "none", sentinel |-> FALSE, day |-> ts.day]

\* the cell to_csv writes for a value convert_to_date returned
DateCell(date) == IF date.sentinel THEN "Invalid Date" ELSE ToString(date.day)

\* posting_date < seven_days_ago raises TypeError when posting_date is the
\* sentinel, a str
TooOldRaises(date) == date.sentinel

TooOld(day) == day < Today - SevenDays

\* pd.DataFrame(jobs_data).to_csv(filename, index=False)
SourceFile(rows) ==
    ToCsv([columns |-> IF Len(rows) = 0 THEN <<>> ELSE JobColumns, rows |-> rows])

\* how a remote listing came back: with a non-success status, with a
\* payload that is not the expected JSON, with no posting, or with postings
Listing(response) ==
    IF response.status # 200 THEN "status"
    ELSE IF ~response.json THEN "malformed"
    ELSE IF Len(response.jobs) = 0 THEN "empty"
    ELSE "ok"

Responses(items, n) ==
    {[status |-> 500, json |-> FALSE, jobs |-> <<>>],
     [status |-> 200, json |-> FALSE, jobs |-> <<>>]}
    \cup {[status |-> 200, json |-> TRUE, jobs |-> l] : l \in SeqsUpTo(items, n)}

-----------------------------------------------------------------------------
(* scrape_venture_jobs                                                     *)

\* a posting of a venture board: its url, timeStamp, how its page came back
\* ("ok", "error": not status 200, "no_marker": none of the marker phrases
\* in its text) and what the oracle does when asked about it
VentureItems ==
    [url : {UrlA}, title : {TitleDev}, timeStamp : {RecentEpoch, Unparseable},
     page : {"ok", "error", "no_marker"}, oracle : OracleOutcomes]

\* the result of an adapter's loop over the postings of a listing
Looped(raised, oracle_failed, jobs_data, bad_dates, asked) ==
    [raised |-> raised, oracle_failed |-> oracle_failed,
     jobs_data |-> jobs_data, bad_dates |-> bad_dates, asked |-> asked]

\* the result of an adapter call: the exception that left it ("none" when
\* it returned), whether it wrote its per-source file, and the file
Called(raised, loop, written, file) ==
    [raised |-> raised, oracle_failed |-> loop.oracle_failed,
     bad_dates |-> loop.bad_dates, asked |-> loop.asked,
     written |-> written, file |-> file]

NotLooped == Looped("none", FALSE, <<>>, {}, <<>>)

RECURSIVE VentureLoop(_, _, _, _, _)
\* the loop over jobs; bad_dates are the links whose timeStamp
\* convert_to_date could not parse
VentureLoop(jobs, venture_name, jobs_data, bad_dates, asked) ==
    IF Len(jobs) = 0 THEN Looped("none", FALSE, jobs_data, bad_dates, asked)
    ELSE LET job   == Head(jobs)
             date  == convert_to_date(job.timeStamp)
             heard == Append(asked, Asked(job.url, job.oracle.content))
         IN  IF job.page # "ok"
             THEN VentureLoop(Tail(jobs), venture_name, jobs_data, bad_dates, asked)
             ELSE IF job.oracle.error
             THEN Looped("APIError", TRUE, jobs_data, bad_dates, asked)
             ELSE IF ~Accepts(job.oracle.content)
             THEN VentureLoop(Tail(jobs), venture_name, jobs_data, bad_dates, heard)
             ELSE IF date.raised # "none"
             THEN Looped(date.raised, FALSE, jobs_data, bad_dates, heard)
             ELSE VentureLoop(Tail(jobs), venture_name,
                      Append(jobs_data,
                             JobRow("Acme", job.title, "Remote", DateCell(date),
                                    job.url, SourceLabel(venture_name))),
                      IF date.sentinel THEN bad_dates \cup {job.url} ELSE bad_dates,
                      heard)

\* scrape_venture_jobs(config, venture_name, url), whole; response.jobs are
\* the postings of the payload (for Sequoia, of its groups)
VentureOutcome(venture_name, response) ==
    LET loop == VentureLoop(response.jobs, venture_name, <<>>, {}, <<>>)
    IN  IF response.status # 200
        THEN Called("none", NotLooped, TRUE, SourceFile(<<>>))
        ELSE IF ~response.json
        THEN Called("JSONDecodeError", NotLooped, FALSE, Absent)
        ELSE IF venture_name = "sequoia" /\ Len(response.jobs) = 0
        THEN Called("IndexError", NotLooped, FALSE, Absent)
        ELSE IF loop.raised # "none"
        THEN Called(loop.raised, loop, FALSE, Absent)
        ELSE Called("none", loop, TRUE, SourceFile(loop.jobs_data))

-----------------------------------------------------------------------------
(* fetch_microsoft_jobs                                                    *)

UrlM == "https://jobs.careers.microsoft.com/global/en/job/1"

MicrosoftItems ==
    [jobId : {UrlM}, title : {TitleDev},
     postingDate : {RecentIso, OldIso, Unparseable}, oracle : OracleOutcomes]

RECURSIVE MicrosoftLoop(_, _, _, _)
MicrosoftLoop(jobs, jobs_data, bad_dates, asked) ==
    IF Len(jobs) = 0 THEN Looped("none", FALSE, jobs_data, bad_dates, asked)
    ELSE LET job          == Head(jobs)
             posting_date == convert_to_date(job.postingDate)
             heard        == Append(asked, Asked(job.jobId, job.oracle.content))
         IN  IF posting_date.raised # "none"
             THEN Looped(posting_date.raised, FALSE, jobs_data, bad_dates, asked)
             ELSE IF TooOldRaises(posting_date)
             THEN Looped("TypeError", FALSE, jobs_data,
                         bad_dates \cup {job.jobId}, asked)
             ELSE IF TooOld(posting_date.day)
             THEN MicrosoftLoop(Tail(jobs), jobs_data, bad_dates, asked)
             ELSE IF job.oracle.error
             THEN Looped("APIError", TRUE, jobs_data, bad_dates, asked)
             ELSE IF ~Accepts(job.oracle.content)
             THEN MicrosoftLoop(Tail(jobs), jobs_data, bad_dates, heard)
             ELSE MicrosoftLoop(Tail(jobs),
                      Append(jobs_data,
                             JobRow("Microsoft", job.title, "Redmond",
                                    DateCell(posting_date), job.jobId, "N/A")),
                      bad_dates, heard)

\* fetch_microsoft_jobs(config), whole: only a JSONDecodeError is caught; a
\* status other than 200 leaves no file
MicrosoftOutcome(response) ==
    LET loop == MicrosoftLoop(response.jobs, <<>>, {}, <<>>)
    IN  IF response.status # 200
        THEN Called("none", NotLooped, FALSE, Absent)
        ELSE IF ~response.json
        THEN Called("none", NotLooped, TRUE, SourceFile(<<>>))
        ELSE IF loop.raised # "none"
        THEN Called(loop.raised, loop, FALSE, Absent)
        ELSE Called("none", loop, TRUE, SourceFile(loop.jobs_data))

-----------------------------------------------------------------------------
(* fetch_amazon_jobs                                                       *)

UrlZ == "https://www.amazon.jobs/en/jobs/1"

\* a location: the cell it is written as, and its characters
Seattle   == [name |-> "US, WA", chars |-> <<"U","S",","," ","W","A">>]
Bengaluru == [name |-> "IN, KA", chars |-> <<"I","N",","," ","K","A">>]

AmazonItems ==
    [icimsJobId : {UrlZ}, title : {TitleDev}, location : {Seattle, Bengaluru},
     createdDate : {RecentEpoch, OldEpoch, Unparseable}, oracle : OracleOutcomes]

RECURSIVE AmazonLoop(_, _, _, _)
AmazonLoop(jobs, jobs_data, bad_dates, asked) ==
    IF Len(jobs) = 0 THEN Looped("none", FALSE, jobs_data, bad_dates, asked)
    ELSE LET job   == Head(jobs)
             heard == Append(asked, Asked(job.icimsJobId, job.oracle.content))
         IN  IF ~Contains(Lower(job.location.chars), <<"u","s">>)
             THEN AmazonLoop(Tail(jobs), jobs_data, bad_dates, asked)
             ELSE IF IntRaises(job.createdDate)
             THEN Looped("ValueError", FALSE, jobs_data,
                         bad_dates \cup {job.icimsJobId}, asked)
             ELSE IF TooOld(job.createdDate.day)
             THEN AmazonLoop(Tail(jobs), jobs_data, bad_dates, asked)
             ELSE IF job.oracle.error
             THEN Looped("APIError", TRUE, jobs_data, bad_dates, asked)
             ELSE IF ~Accepts(job.oracle.content)
             THEN AmazonLoop(Tail(jobs), jobs_data, bad_dates, heard)
             ELSE AmazonLoop(Tail(jobs),
                      Append(jobs_data,
                             JobRow("Amazon", job.title, job.location.name,
                                    DateCell(convert_to_date(job.createdDate)),
                                    job.icimsJobId, "N/A")),
                      bad_dates, heard)

\* fetch_amazon_jobs(config), whole: nothing is caught; a status other than
\* 200 leaves no file
AmazonOutcome(response) ==
    LET loop == AmazonLoop(response.jobs, <<>>, {}, <<>>)
    IN  IF response.status # 200
        THEN Called("none", NotLooped, FALSE, Absent)
        ELSE IF ~response.json
        THEN Called("JSONDecodeError", NotLooped, FALSE, Absent)
        ELSE IF loop.raised # "none"
        THEN Called(loop.raised, loop, FALSE, Absent)
        ELSE Called("none", loop, TRUE, SourceFile(loop.jobs_data))

-----------------------------------------------------------------------------
(* scrape_yc_jobs                                                          *)

UrlY == "https://www.ycombinator.com/companies/acme/jobs/1"

\* a posting of the YC page: its link ("" when the entry has none), whether
\* the entry shows a date, how the posting's page came back and the oracle
YcItems ==
    [href : {UrlY, ""}, title : {TitleDev}, date_span : BOOLEAN,
     page : {"ok", "error"}, oracle : OracleOutcomes]

RECURSIVE YcLoop(_, _, _)
YcLoop(jobs, jobs_data, asked) ==
    IF Len(jobs) = 0 THEN Looped("none", FALSE, jobs_data, {}, asked)
    ELSE LET job   == Head(jobs)
             heard == Append(asked, Asked(job.href, job.oracle.content))
         IN  IF ~job.date_span
             THEN Looped("AttributeError", FALSE, jobs_data, {}, asked)
             ELSE IF job.href = "" \/ job.page # "ok"
             THEN YcLoop(Tail(jobs), jobs_data, asked)
             ELSE IF job.oracle.error
             THEN Looped("APIError", TRUE, jobs_data, {}, asked)
             ELSE IF ~Accepts(job.oracle.content)
             THEN YcLoop(Tail(jobs), jobs_data, heard)
             ELSE YcLoop(Tail(jobs),
                      Append(jobs_data,
                             JobRow("Acme", job.title, "Remote", "(2 days ago)",
                                    job.href, "Y-Combinator")),
                      heard)

\* scrape_yc_jobs(config), whole: the file is written whatever the status; a
\* page without the expected markup lists no posting
YcOutcome(response) ==
    LET loop == YcLoop(IF response.json THEN response.jobs ELSE <<>>, <<>>, <<>>)
    IN  IF response.status # 200
        THEN Called("none", NotLooped, TRUE, SourceFile(<<>>))
        ELSE IF loop.raised # "none"
        THEN Called(loop.raised, loop, FALSE, Absent)
        ELSE Called("none", loop, TRUE, SourceFile(loop.jobs_data))

-----------------------------------------------------------------------------
(* The run controller: lambda_handler and main.                            *)

VentureNames == {"sequoia", "nextview", "greylock", "andreessen"}

\* a main that scrapes YC for both configurations
FirstAdapterAlwaysYc(job_type) == "yc"

\* main's first scraping call: YC is scraped for CS jobs only
FirstAdapter(job_type) == IF job_type = "CS" THEN "yc" ELSE "sequoia"

\* the call of main that follows the adapter `name`
AfterAdapter(name) ==
    IF name = "amazon" THEN "combine"
    ELSE SourceNames[1 + CHOOSE i \in 1..Len(SourceNames) : SourceNames[i] = name]

\* main's call of an adapter, given what the call did: the call's summary,
\* its file if it wrote one, and the exception if it raised
AdapterCalled(name, response, out) ==
    /\ call' = [name |-> name, listing |-> Listing(response),
                oracle_failed |-> out.oracle_failed, bad_dates |-> out.bad_dates,
                asked |-> out.asked, written |-> out.written]
    /\ fetched' = fetched + Len(response.jobs)
    /\ fs' = IF out.written THEN [fs EXCEPT ![<<cur, name>>] = out.file] ELSE fs
    /\ exc' = out.raised
    /\ pc' = IF out.raised # "none" THEN "except" ELSE AfterAdapter(name)
    /\ UNCHANGED <<s3, cur, locals, started, sheet, outbox, result, invocations>>

scrape_yc_jobs ==
    /\ pc = "yc"
    /\ \E response \in Responses(YcItems, MaxPostings - fetched) :
          AdapterCalled("yc", response, YcOutcome(response))

scrape_venture_jobs ==
    /\ pc \in VentureNames
    /\ \E response \in Responses(VentureItems, MaxPostings - fetched) :
          AdapterCalled(pc, response, VentureOutcome(pc, response))

fetch_microsoft_jobs ==
    /\ pc = "microsoft"
    /\ \E response \in Responses(MicrosoftItems, MaxPostings - fetched) :
          AdapterCalled("microsoft", response, MicrosoftOutcome(response))

fetch_amazon_jobs ==
    /\ pc = "amazon"
    /\ \E response \in Responses(AmazonItems, MaxPostings - fetched) :
          AdapterCalled("amazon", response, AmazonOutcome(response))

\* lambda_handler is invoked: both JobConfigs are built and main(DS_CONFIG)
\* is called; /tmp is what the previous invocation left, or empty when the
\* container is new
lambda_handler ==
    /\ pc \in {"idle", "returned"}
    /\ invocations < MaxInvocations
    /\ invocations' = invocations + 1
    /\ fs' \in {fs, NoFiles}
    /\ pc' = "main"
    /\ cur' = "DS"
    /\ started' = {}
    /\ result' = 0
    /\ exc' = "none"
    /\ call' = NoCall
    /\ locals' = NoLocals
    /\ UNCHANGED <<s3, fetched, sheet, outbox>>

\* main(config) up to its first call: the scrape phase and the aggregation
\* are skipped when every file of config.filenames exists
main ==
    /\ pc = "main"
    /\ started' = started \cup {cur}
    /\ call' = NoCall
    /\ locals' = NoLocals
    /\ pc' = IF \A n \in FileNames : fs[<<cur, n>>].exists
             THEN "upload" ELSE FirstAdapter(cur)
    /\ UNCHANGED <<fs, s3, cur, exc, fetched, sheet, outbox, result, invocations>>

\* a worksheet without data
EmptyWorksheet == [exists |-> TRUE, columns |-> <<>>, rows |-> <<>>]

\* upload_to_google_sheet(config): today's worksheet is replaced by the
\* combined file's header and rows; every exception is caught and printed
upload_to_google_sheet ==
    /\ pc = "upload"
    /\ \E reachable \in BOOLEAN :
          sheet' = IF ~reachable THEN sheet
                   ELSE [sheet EXCEPT ![cur] =
                            IF /\ fs[<<cur, "combined">>].exists
                               /\ ~ReadCsvRaises(fs[<<cur, "combined">>])
                            THEN ToCsv(ReadCsv(fs[<<cur, "combined">>]))
                            ELSE EmptyWorksheet]
    /\ pc' = "email"
    /\ UNCHANGED <<fs, s3, cur, locals, call, exc, fetched, started, outbox,
                   result, invocations>>

\* send_email_with_attachments(config): the combined file is attached when
\* it exists; an SMTP failure is not caught
send_email_with_attachments ==
    /\ pc = "email"
    /\ \E delivered \in BOOLEAN :
          IF delivered
          THEN /\ outbox' = Append(outbox, [job_type   |-> cur,
                                            attachment |-> fs[<<cur, "combined">>]])
               /\ pc' = "cleanup"
               /\ exc' = "none"
          ELSE /\ outbox' = outbox
               /\ pc' = "except"
               /\ exc' = "SMTPException"
    /\ UNCHANGED <<fs, s3, cur, locals, call, fetched, started, sheet, result,
                   invocations>>

\* cleanup_tmp() and main's return: lambda_handler calls main(CS_CONFIG)
\* after main(DS_CONFIG), and returns 200 after main(CS_CONFIG)
cleanup_tmp ==
    /\ pc = "cleanup"
    /\ fs' = NoFiles
    /\ IF cur = "DS"
       THEN /\ cur' = "CS"
            /\ pc' = "main"
            /\ result' = result
       ELSE /\ cur' = cur
            /\ pc' = "returned"
            /\ result' = 200
    /\ UNCHANGED <<s3, locals, call, exc, fetched, started, sheet, outbox,
                   invocations>>

\* lambda_handler's  except Exception : the error is printed and 500 is
\* returned
handle_exception ==
    /\ pc = "except"
    /\ result' = 500
    /\ pc' = "returned"
    /\ UNCHANGED <<fs, s3, cur, locals, call, exc, fetched, started, sheet,
                   outbox, invocations>>

Init ==
    /\ fs = NoFiles
    /\ s3 = NoObjects
    /\ pc = "idle"
    /\ cur = "DS"
    /\ locals = NoLocals
    /\ call = NoCall
    /\ exc = "none"
    /\ fetched = 0
    /\ started = {}
    /\ sheet = NoObjects
    /\ outbox = <<>>
    /\ result = 0
    /\ invocations = 0

Next ==
    \/ lambda_handler
    \/ main
    \/ scrape_yc_jobs
    \/ scrape_venture_jobs
    \/ fetch_microsoft_jobs
    \/ fetch_amazon_jobs
    \/ combine_csv_files
    \/ upload_to_google_sheet
    \/ send_email_with_attachments
    \/ cleanup_tmp
    \/ handle_exception

Spec == Init /\ [][Next]_vars

-----------------------------------------------------------------------------
(* The aggregator on its own: combine_csv_files from any per-source files  *)
(* and any ledger.                                                         *)

\* at most two per-source files exist (of adapters that run one after the
\* other), holding MaxRows rows in total, each file listing a link once,
\* and the ledger holds at most MaxLedger records, some of them under a
\* title that has drifted since
InitAny ==
    \E job_type \in JobTypes :
    \E i1 \in 1..Len(SourceNames) :
    \E i2 \in {i \in {i1, i1 + 1} : i <= Len(SourceNames)} :
    \E r1 \in SeqsUpTo(RowsOf(SourceNames[i1], {TitleDev, TitleSrDev}, {UrlA, UrlB}),
                       MaxRows) :
    \E r2 \in SeqsUpTo(RowsOf(SourceNames[i2], {TitleDev, TitleSrDev}, {UrlA, UrlB}),
                       MaxRows - Len(r1)) :
    \E ledger \in LedgerObjects({TitleDev, TitleDevII}, {UrlA, UrlB}, MaxLedger) :
        /\ ~HasDuplicateLink(r1) /\ ~HasDuplicateLink(r2)
        /\ cur = job_type
        /\ fs = [k \in FileKeys |->
                    IF k = <<job_type, SourceNames[i1]>> THEN SourceFile(r1)
                    ELSE IF k = <<job_type, SourceNames[i2]>> THEN SourceFile(r2)
                    ELSE Absent]
        /\ s3 = [NoObjects EXCEPT ![job_type] = ledger]

TitleAlphabet == {"S", "s", "r", ".", "e"}

SampleTitles ==
    {TitleNA,
     <<"S","e","n","i","o","r"," ","D","e","v">>,
     <<"D","e","v"," ","I","I">>,
     <<"T","e","a","m"," ","L","E","A","D">>,
     <<"P","h","D"," ","D","e","v">>}

\* one per-source file holding one row, under any short title, and no ledger
InitTitle ==
    \E job_type \in JobTypes :
    \E i \in 1..Len(SourceNames) :
    \E title \in SeqsUpTo(TitleAlphabet, MaxTitleLen) \cup SampleTitles :
        /\ cur = job_type
        /\ fs = [NoFiles EXCEPT ![<<job_type, SourceNames[i]>>] =
                    SourceFile(<<JobRow(CompanyOf(SourceNames[i]), title, "Remote",
                                        "2024-12-06", UrlA, SourceLabel(SourceNames[i]))>>)]
        /\ s3 = NoObjects

\* one per-source file holding three rows with three links, every other
\* file missing, and no ledger
InitThreeRows ==
    \E job_type \in JobTypes :
    \E i \in 1..Len(SourceNames) :
    \E t \in [1..3 -> {TitleDev, TitleDevII, TitleSrDev, TitleSRE}] :
    \E l \in {p \in [1..3 -> {UrlA, UrlB, UrlC}] : \A a, b \in 1..3 : p[a] = p[b] => a = b} :
        /\ cur = job_type
        /\ fs = [NoFiles EXCEPT ![<<job_type, SourceNames[i]>>] =
                    SourceFile([k \in 1..3 |->
                        JobRow(CompanyOf(SourceNames[i]), t[k], "Remote",
                               "2024-12-06", l[k], SourceLabel(SourceNames[i]))])]
        /\ s3 = NoObjects

InitCombine ==
    /\ pc = "combine"
    /\ locals = NoLocals
    /\ call = NoCall
    /\ exc = "none"
    /\ fetched = 0
    /\ started = {}
    /\ sheet = NoObjects
    /\ outbox = <<>>
    /\ result = 0
    /\ invocations = 0
    /\ (InitAny \/ InitTitle \/ InitThreeRows)

NextCombine == combine_csv_files

SpecCombine == InitCombine /\ [][NextCombine]_vars

-----------------------------------------------------------------------------
(* Overlapping runs of one job type.  Each run has its own /tmp (fs[run])  *)
(* and its own local variables; the runs share S3.  What a run asks of S3  *)
(* is one step each: get_object inside get_historical_log_from_s3, and     *)
(* put_object inside update_historical_log_in_s3.                          *)

Runs == 1..MaxRuns

\* an update that puts back the stored ledger with the new postings after
\* it, instead of the ledger the run loaded
UpdateMergingStored(object, history_df, new_jobs) ==
    update_historical_log_in_s3(
        UpdatedHistory(get_historical_log_from_s3(object), new_jobs))

\* lines 570-576: the object that update_historical_log_in_s3 puts; the
\* object that is stored at that moment is not looked at
UpdateFromLoaded(object, history_df, new_jobs) ==
    update_historical_log_in_s3(UpdatedHistory(history_df, new_jobs))

\* combine_csv_files up to the return of get_historical_log_from_s3 and the
\* computation of new_jobs; `after` are the runs that had finished then
combine_csv_files_load(run) ==
    /\ pc[run] = "combine"
    /\ LET out == CombineOutcome(cur, fs[run], s3)
       IN  locals' = [locals EXCEPT ![run] =
                        out.locals @@
                        [after |-> {q \in Runs : pc[q] = "upload"}]]
    /\ pc' = [pc EXCEPT ![run] = "persist"]
    /\ UNCHANGED <<fs, s3, cur, call, exc, fetched, started, sheet, outbox,
                   result, invocations>>

\* the rest of combine_csv_files: update_historical_log_in_s3 when there are
\* new postings, then the combined file
combine_csv_files_persist(run) ==
    /\ pc[run] = "persist"
    /\ s3' = IF locals[run].persisted
             THEN [s3 EXCEPT ![cur] =
                      UpdateFromLoaded(s3[cur], locals[run].history_df,
                                       locals[run].new_jobs)]
             ELSE s3
    /\ fs' = IF locals[run].written
             THEN [fs EXCEPT ![run][<<cur, "combined">>] =
                      ToCsv(IF locals[run].persisted THEN locals[run].new_jobs
                            ELSE locals[run].candidates)]
             ELSE fs
    /\ pc' = [pc EXCEPT ![run] = "upload"]
    /\ UNCHANGED <<cur, locals, call, exc, fetched, started, sheet, outbox,
                   result, invocations>>

\* every run is about to aggregate one per-source file of its own, of at
\* most MaxRows rows, and the ledger holds at most MaxLedger records
InitConcurrent ==
    /\ \E job_type \in JobTypes :
       \E name \in {"sequoia", "amazon"} :
       \E rows \in [Runs -> {r \in SeqsUpTo(RowsOf(name, {TitleDev}, {UrlA, UrlB}),
                                            MaxRows) : ~HasDuplicateLink(r)}] :
       \E ledger \in LedgerObjects({TitleDev}, {UrlA, UrlC}, MaxLedger) :
          /\ cur = job_type
          /\ fs = [run \in Runs |->
                      [NoFiles EXCEPT ![<<job_type, name>>] = SourceFile(rows[run])]]
          /\ s3 = [NoObjects EXCEPT ![job_type] = ledger]
    /\ pc = [run \in Runs |-> "combine"]
    /\ locals = [run \in Runs |-> NoLocals @@ [after |-> {}]]
    /\ call = NoCall
    /\ exc = "none"
    /\ fetched = 0
    /\ started = {}
    /\ sheet = NoObjects
    /\ outbox = <<>>
    /\ result = 0
    /\ invocations = 0

NextConcurrent ==
    \E run \in Runs :
        \/ combine_csv_files_load(run)
        \/ combine_csv_files_persist(run)

SpecConcurrent == InitConcurrent /\ [][NextConcurrent]_vars

-----------------------------------------------------------------------------
(* Properties of the aggregator and the history store.                     *)

\* a row of a per-source file as pd.read_csv returns it
ReadRow(row) == [c \in DOMAIN row |-> ReadCell(c, row[c])]

\* the title contains the keyword, ignoring case, character for character
ContainsKeyword(title, keyword) == Contains(Lower(title), Lower(keyword))

ContainsAnyKeyword(title, job_type) ==
    \E k \in Range(ExclusionKeywords(job_type)) : ContainsKeyword(title, k)

\* C1: after a reconciliation, the new postings are exactly the candidate
\* rows, in order, whose Link is not a Link of the ledger that was loaded;
\* no other field of a candidate or of a ledger record decides it.
ThmC1_NewPostingsByLink ==
    locals.filtered =>
        locals.new_jobs.rows =
            SelectSeq(locals.candidates.rows,
                      LAMBDA r : r["Link"] \notin Links(locals.history_df))

\* C1's case: the ledger holds a link under another title than the
\* candidate's, that candidate is not new, and another candidate is new.
WitC1_TitleDrift ==
    /\ locals.filtered
    /\ \E i \in 1..Len(locals.candidates.rows) :
       \E h \in 1..Len(locals.history_df.rows) :
          /\ locals.candidates.rows[i]["Link"] = locals.history_df.rows[h]["Link"]
          /\ locals.candidates.rows[i]["Job"] # locals.history_df.rows[h]["Job"]
          /\ locals.candidates.rows[i] \notin Range(locals.new_jobs.rows)
    /\ Len(locals.new_jobs.rows) > 0

\* C2: the ledger that a reconciliation writes holds every record of the
\* ledger it loaded and holds no Link twice.
CexC2_UpdatedHistoryIsASet ==
    locals.persisted =>
        /\ Range(locals.history_df.rows) \subseteq Range(s3[cur].rows)
        /\ ~HasDuplicateLink(s3[cur].rows)

\* C3: the combined artifact that a run writes holds only postings whose
\* Link was not in the ledger the run loaded.
CexC3_CombinedHoldsOnlyNewPostings ==
    (pc = "upload" /\ locals.written) =>
        \A i \in 1..Len(fs[<<cur, "combined">>].rows) :
            fs[<<cur, "combined">>].rows[i]["Link"] \notin Links(locals.history_df)

\* C4: a reconciliation that finds no new posting still writes the ledger
\* and writes no combined artifact.
CexC4_NoNewPostingsPersistsAndSkipsOutput ==
    (locals.filtered /\ IsEmpty(locals.new_jobs)) =>
        (locals.persisted /\ ~locals.written)

\* C9: a row of a per-source file is dropped by the aggregator if and only
\* if its title contains one of the configured exclusion keywords as a
\* literal substring, ignoring case.
CexC9_DroppedIffLiteralSubstring ==
    (pc = "upload" /\ locals.filtered) =>
        \A n \in Range(FilesToCombine(cur)) :
        \A i \in 1..Len(fs[<<cur, n>>].rows) :
            LET row == fs[<<cur, n>>].rows[i]
            IN  (ReadRow(row) \notin Range(locals.candidates.rows))
                    <=> ContainsAnyKeyword(row["Job"], cur)

\* the scenario of C10, before the aggregation: no ledger, one per-source
\* file of three rows with three links of which the filter matches exactly
\* one title, and no other per-source file
ThreeRowScenario(name) ==
    LET rows == fs[<<cur, name>>].rows
    IN  /\ ~s3[cur].exists
        /\ \A n \in Range(FilesToCombine(cur)) : n # name => ~fs[<<cur, n>>].exists
        /\ fs[<<cur, name>>].exists
        /\ Len(rows) = 3
        /\ ~HasDuplicateLink(rows)
        /\ Cardinality({i \in 1..3 : TitleExcluded(ReadRow(rows[i])["Job"], cur)}) = 1

\* the outcome of C10, after it: the combined artifact holds the two other
\* rows and the ledger holds their two links, once each
TwoRowOutcome(name) ==
    LET kept == SelectSeq([i \in 1..3 |-> ReadRow(fs[<<cur, name>>].rows[i])],
                          LAMBDA r : ~TitleExcluded(r["Job"], cur))
    IN  /\ pc = "upload"
        /\ Len(kept) = 2
        /\ fs[<<cur, "combined">>].exists
        /\ fs[<<cur, "combined">>].columns = JobColumns
        /\ fs[<<cur, "combined">>].rows = kept
        /\ s3[cur].exists
        /\ Len(s3[cur].rows) = 2
        /\ Links(s3[cur]) = {kept[1]["Link"], kept[2]["Link"]}

CombinedAfterAnotherCall ==
    CombineOutcome(cur, fs, s3).files[<<cur, "combined">>]

\* C11: when the aggregator has run, running it once more on the same
\* per-source files leaves the combined artifact exactly as the first run
\* left it, whatever ledger the first run started from.
CexC11_SecondAggregationSameOutput ==
    (pc = "upload" /\ locals.ran) =>
        CombinedAfterAnotherCall = fs[<<cur, "combined">>]

-----------------------------------------------------------------------------
(* Properties of the run controller and the source adapters.               *)

\* C5: when lambda_handler has returned, both passes have been entered: an
\* exception inside the DS pass or the CS pass is caught and does not keep
\* the other pass from running.
CexC5_BothPassesRun ==
    pc = "returned" => (result \in {200, 500} /\ started = JobTypes)

\* C6: when an oracle call fails during an adapter call, no exception leaves
\* the adapter, the adapter writes its per-source file, and main goes on to
\* its next call.
CexC6_OracleFailureRejectsOnePosting ==
    call.oracle_failed =>
        /\ exc = "none"
        /\ call.written
        /\ pc = AfterAdapter(call.name)

\* C7: when the listing of an adapter comes back with a non-success status,
\* malformed or empty, no exception leaves the adapter, main goes on to its
\* next call and the adapter's file holds no posting.
CexC7_BadListingContributesNothing ==
    call.listing \in {"status", "malformed", "empty"} =>
        /\ exc = "none"
        /\ pc = AfterAdapter(call.name)
        /\ Len(fs[<<cur, call.name>>].rows) = 0

\* C8: when an adapter meets a posting date it cannot parse (and no oracle
\* call fails), no exception leaves the adapter and every such posting it
\* accepts is in the adapter's file, dated "Invalid Date".
CexC8_UnparseableDateKeepsPosting ==
    (call.bad_dates # {} /\ ~call.oracle_failed) =>
        /\ exc = "none"
        /\ \A l \in call.bad_dates :
              \E i \in 1..Len(fs[<<cur, call.name>>].rows) :
                  /\ fs[<<cur, call.name>>].rows[i]["Link"] = l
                  /\ fs[<<cur, call.name>>].rows[i]["Date/Time Posted"] = "Invalid Date"

\* C12: the per-source artifact of an adapter call that has returned, and
\* the combined artifact once the aggregator has run, exist and begin with
\* the header row Company, Job, Details, Date/Time Posted, Link, Source,
\* whatever the remote answered and however few postings were accepted.
CexC12_ArtifactsBeginWithHeader ==
    /\ (call.name # "none" /\ exc = "none") =>
           /\ fs[<<cur, call.name>>].exists
           /\ fs[<<cur, call.name>>].columns =
                  <<"Company", "Job", "Details", "Date/Time Posted", "Link", "Source">>
    /\ (pc = "upload" /\ locals.ran) =>
           /\ fs[<<cur, "combined">>].exists
           /\ fs[<<cur, "combined">>].columns =
                  <<"Company", "Job", "Details", "Date/Time Posted", "Link", "Source">>

\* C13: the postings in the file of an adapter call that has returned are,
\* in order, exactly the postings about which the oracle gave an answer
\* that contains "yes", whatever the case of its letters and wherever in
\* the answer it stands.
ThmC13_AcceptedIffAnswerContainsYes ==
    (call.name # "none" /\ exc = "none" /\ call.written) =>
        LET rows == fs[<<cur, call.name>>].rows
            yes  == SelectSeq(call.asked,
                        LAMBDA a : Contains(Lower(a.content), <<"y","e","s">>))
        IN  [i \in 1..Len(rows) |-> rows[i]["Link"]]
                = [i \in 1..Len(yes) |-> yes[i].link]

\* C13's case: the oracle answered " OH YES!" about one posting and "maybe"
\* about another, and the adapter's file holds the first posting only.
WitC13_ShoutAcceptedMaybeRejected ==
    /\ call.name # "none" /\ exc = "none" /\ call.written
    /\ Len(call.asked) = 2
    /\ \E i, j \in 1..2 :
          /\ call.asked[i].content = AnswerShout.content
          /\ call.asked[j].content = AnswerMaybe.content
          /\ Len(fs[<<cur, call.name>>].rows) = 1
          /\ fs[<<cur, call.name>>].rows[1]["Link"] = call.asked[i].link

\* the per-source artifacts a pass of this job type produces all exist
PerSourceArtifactsExist(job_type) ==
    \A n \in Range(FilesToCombine(job_type)) : fs[<<job_type, n>>].exists

\* C14: a pass that starts while all its per-source artifacts exist skips
\* the scrape phase: main goes on to the upload without calling any source
\* adapter or the aggregator, and the files and the ledger stay as they are.
CexC14_SameDayRerunSkipsScrape ==
    [][(pc = "main" /\ PerSourceArtifactsExist(cur)) =>
           (pc' = "upload" /\ fs' = fs /\ s3' = s3)]_vars

\* C15: a pass (from main's entry on) asks S3 for nothing but its own job
\* type's ledger, which it gets at most once and then puts at most once; and
\* no step of any run removes or changes a record of a ledger: the ledger a
\* step leaves begins with the records it held before, and only the
\* aggregator of that job type's pass changes it.
ThmC15_LedgerAppendOnly ==
    /\ [](pc # "main" =>
             locals.ops \in {<<>>,
                             <<S3Request("get", cur)>>,
                             <<S3Request("get", cur), S3Request("put", cur)>>})
    /\ [][\A j \in JobTypes :
             /\ s3[j].exists =>
                   /\ s3'[j].exists
                   /\ Len(s3'[j].rows) >= Len(s3[j].rows)
                   /\ SubSeq(s3'[j].rows, 1, Len(s3[j].rows)) = s3[j].rows
             /\ s3'[j] # s3[j] => (j = cur /\ pc = "combine")]_vars

\* C15's case: in a second invocation, a pass has loaded a ledger that an
\* earlier run wrote and has put it back with a new record after the old.
WitC15_SecondRunAppended ==
    /\ invocations = 2
    /\ locals.persisted
    /\ locals.ops = <<S3Request("get", cur), S3Request("put", cur)>>
    /\ Len(locals.history_df.rows) > 0
    /\ Len(s3[cur].rows) > Len(locals.history_df.rows)

\* C17: in no invocation does main take its "files already exist" branch:
\* the yc file of the DS configuration never exists, the CS pass starts
\* with no file at all (cleanup_tmp of the DS pass has just run), and main
\* never goes on to the upload without scraping.
ThmC17_SkipBranchNeverTaken ==
    /\ [](~fs[<<"DS", "yc">>].exists)
    /\ []((pc = "main" /\ cur = "CS") => fs = NoFiles)
    /\ [][pc = "main" => pc' \in {"yc", "sequoia"}]_vars

\* C17's case: a second invocation finds every file of the DS
\* configuration but yc left by the first one, and its DS pass has gone on
\* to scrape.
WitC17_WarmRerunScrapes ==
    /\ invocations = 2
    /\ cur = "DS" /\ pc = "sequoia"
    /\ \A n \in FileNames \ {"yc"} : fs[<<"DS", n>>].exists

-----------------------------------------------------------------------------
(* Properties of overlapping runs.                                         *)

\* the links a run has added to the ledger
AddedLinks(run) ==
    IF pc[run] = "upload" /\ locals[run].persisted
    THEN Links(locals[run].new_jobs) ELSE {}

\* of every two runs, one loaded the ledger after the other had finished
Serialized ==
    \A r, q \in Runs :
        r # q => (q \in locals[r].after \/ r \in locals[q].after)

\* C16: a run that persists puts exactly the ledger it loaded followed by
\* its new postings, whatever is stored at that moment (no lock, no
\* comparison with the stored object); and when the runs are serialized and
\* all have finished, the ledger holds every link that any of them added.
ThmC16_LastPersistWinsUnlessSerialized ==
    /\ []((Serialized /\ \A r \in Runs : pc[r] = "upload") =>
              \A r \in Runs : AddedLinks(r) \subseteq Links(s3[cur]))
    /\ [][\A r \in Runs :
             (pc[r] = "persist" /\ pc'[r] = "upload" /\ locals[r].persisted) =>
                 s3'[cur].rows =
                     locals[r].history_df.rows \o
                     [i \in 1..Len(locals[r].new_jobs.rows) |->
                         [c \in Range(HistoryColumns) |->
                             locals[r].new_jobs.rows[i][c]]]]_vars

\* C16's case: two runs both loaded the ledger before either persisted, both
\* have persisted, and a link that one of them added is not in the ledger.
WitC16_LostUpdate ==
    /\ \A r \in Runs : pc[r] = "upload" /\ locals[r].after = {}
    /\ \E r, q \in Runs :
          /\ r # q
          /\ locals[r].persisted /\ locals[q].persisted
          /\ \E l \in AddedLinks(r) : l \notin Links(s3[cur])

=============================================================================
